---- MODULE Spec2Model ----
(***************************************************************************)
(* Conversation session engine of the Ava leasing chatbot (src/main.py,    *)
(* src/agents/helper.py, src/agents/ava.py): the in-memory conversations   *)
(* map guarded by conversations_lock, the /chat and /chat/stream turn      *)
(* handlers, the inactivity sweep and generate_and_send_summary.           *)
(*                                                                         *)
(* Text is modelled with TLA+ strings; a session is a Python dict, i.e. a  *)
(* function from the keys it currently holds to their values.              *)
(***************************************************************************)
EXTENDS Integers, Sequences, FiniteSets, TLC

\* ------------------------------------------------------------------ bounds
MaxTurns == 3
MaxConcurrent == 2
MaxSweepTurns == 2
MaxTime == 363
MaxCalls == 2
MaxTokens == 3

\* --------------------------------------------------------- program constants
IdleThreshold == 120
MinReplyLen == 20

IdSeq == << "c1", "c2" >>
Ids == { IdSeq[i] : i \in 1..Len(IdSeq) }
\* Conversation ids are interchangeable: request t draws its id from the first
\* t ids, which loses no behaviour up to renaming of the ids.
IdsFor(t) == { IdSeq[i] : i \in 1..(IF t < Len(IdSeq) THEN t ELSE Len(IdSeq)) }
Turns == 1..MaxTurns
TickSteps == {120, 121}

None == "None"
Free == 0

\* ------------------------------------------------------------ text helpers
LowerChar(c) ==
    CASE c = "A" -> "a" [] c = "B" -> "b" [] c = "C" -> "c" [] c = "D" -> "d"
      [] c = "E" -> "e" [] c = "F" -> "f" [] c = "G" -> "g" [] c = "H" -> "h"
      [] c = "I" -> "i" [] c = "J" -> "j" [] c = "K" -> "k" [] c = "L" -> "l"
      [] c = "M" -> "m" [] c = "N" -> "n" [] c = "O" -> "o" [] c = "P" -> "p"
      [] c = "Q" -> "q" [] c = "R" -> "r" [] c = "S" -> "s" [] c = "T" -> "t"
      [] c = "U" -> "u" [] c = "V" -> "v" [] c = "W" -> "w" [] c = "X" -> "x"
      [] c = "Y" -> "y" [] c = "Z" -> "z" [] OTHER -> c

RECURSIVE Lower(_)
Lower(s) ==
    IF Len(s) = 0 THEN ""
    ELSE IF Len(s) = 1 THEN LowerChar(s)
    ELSE LET h == Len(s) \div 2
         IN  Lower(SubSeq(s, 1, h)) \o Lower(SubSeq(s, h + 1, Len(s)))

Contains(s, k) ==
    \E i \in 1..(Len(s) - Len(k) + 1) : SubSeq(s, i, i + Len(k) - 1) = k

IsSpace(c) == c \in {" ", "\n", "\t"}

RECURSIVE Strip(_)
Strip(s) ==
    IF Len(s) = 0 THEN s
    ELSE IF IsSpace(SubSeq(s, 1, 1)) THEN Strip(SubSeq(s, 2, Len(s)))
    ELSE IF IsSpace(SubSeq(s, Len(s), Len(s))) THEN Strip(SubSeq(s, 1, Len(s) - 1))
    ELSE s

\* ------------------------------------------------- trigger-variable tables
all_variables ==
    << "Full_name", "Bedroom_size", "Calendar", "User_action", "Faq", "YES/NO",
       "Incentive", "Price_range", "Work_place", "Occupancy", "Pet", "Features",
       "Tour", "Save_25", "Save_50" >>

specific_triggers ==
    << [var |-> "Full_name",    keywords |-> << "Full Name" >>],
       [var |-> "Bedroom_size", keywords |-> << "bedroom size" >>],
       [var |-> "Calendar",     keywords |-> << "move-in date" >>],
       [var |-> "User_action",  keywords |-> << "next action" >>],
       [var |-> "Faq",          keywords |-> << "top questions" >>],
       [var |-> "Incentive",    keywords |-> << "$ off", "save $" >>],
       [var |-> "Price_range",  keywords |-> << "price range" >>],
       [var |-> "Work_place",   keywords |-> << "work place" >>],
       [var |-> "Occupancy",    keywords |-> << "how many people (occupants)" >>],
       [var |-> "Pet",          keywords |-> << "(pets) with you" >>],
       [var |-> "Features",     keywords |-> << "special features" >>],
       [var |-> "Tour",         keywords |-> << "in-person tour", "self-guided tour", "virtual tour" >>],
       [var |-> "Save_25",      keywords |-> << "$25, save" >>],
       [var |-> "Save_50",      keywords |-> << "$50, save" >> ] >>

yes_no_triggers ==
    << "Is...?", "Are...?", "Can...?", "Could...?", "Will...?", "Would...?",
       "Shall...?", "Should...?", "May...?", "Might...?", "Have...?", "Has...?",
       "Had...?" >>

FALLBACK_PATTERNS ==
    << "i don't understand", "i'm not sure", "could you clarify",
       "what do you mean", "can you explain", "i don't know",
       "let me check with", "i need to ask", "that's beyond my",
       "i cannot help with" >>

FALLBACK_RESPONSE ==
    "We are connecting you to the manager now. Could you please enter your email address or phone number below? They will reach out ASAP."

AnyKeyword(keywords, response_lower) ==
    \E j \in 1..Len(keywords) : Contains(response_lower, Lower(keywords[j]))

TriggerMatches(response_lower) ==
    { i \in 1..Len(specific_triggers) :
        AnyKeyword(specific_triggers[i].keywords, response_lower) }

\* A lookup that lets a later trigger override an earlier one.
get_triggered_last(response) ==
    LET response_lower == Lower(response)
        hits == TriggerMatches(response_lower)
    IN  IF hits /= {}
        THEN specific_triggers[CHOOSE i \in hits : \A j \in hits : i >= j].var
        ELSE IF AnyKeyword(yes_no_triggers, response_lower)
        THEN "YES/NO"
        ELSE None

get_triggered_variable(response) ==
    LET response_lower == Lower(response)
        hits == TriggerMatches(response_lower)
    IN  IF hits /= {}
        THEN specific_triggers[CHOOSE i \in hits : \A j \in hits : i <= j].var
        ELSE IF AnyKeyword(yes_no_triggers, response_lower)
        THEN "YES/NO"
        ELSE None

\* A map that also raises "YES/NO" next to a specific trigger.
VariableMapLoose(triggered_var) ==
    [ i \in 1..Len(all_variables) |->
        [name |-> all_variables[i],
         value |-> \/ all_variables[i] = triggered_var
                   \/ (triggered_var /= None /\ all_variables[i] = "YES/NO")] ]

\* variables = {var: (var == triggered_var) for var in all_variables}
VariableMap(triggered_var) ==
    [ i \in 1..Len(all_variables) |->
        [name |-> all_variables[i], value |-> (all_variables[i] = triggered_var)] ]

\* confidence_score is in hundredths; NoScore stands for Python's None
NoScore == -1

detect_fallback(ai_response, confidence_score) ==
    LET response_lower == Lower(ai_response)
    IN  \/ (confidence_score /= NoScore /\ confidence_score < 70)
        \/ \E p \in 1..Len(FALLBACK_PATTERNS) :
              Contains(response_lower, FALLBACK_PATTERNS[p])
        \/ Len(Strip(ai_response)) < MinReplyLen

\* SENTENCE_ENDINGS = re.compile(r'([.?!])')
SENTENCE_ENDINGS == {".", "?", "!"}

\* One pass of the generator's inner loop over sentence_buffer: parts =
\* SENTENCE_ENDINGS.split(sentence_buffer); every "part + delimiter" pair is
\* emitted, parts[-1] (the text after the last delimiter) stays in the buffer.
\* A split that forwards the sentences without their delimiters.
SplitBufferNoDelimiter(buffer) ==
    LET ends == { i \in 1..Len(buffer) : SubSeq(buffer, i, i) \in SENTENCE_ENDINGS }
        nth(k) == CHOOSE i \in ends : Cardinality({ j \in ends : j <= i }) = k
        start(k) == IF k = 1 THEN 1 ELSE nth(k - 1) + 1
        last == IF ends = {} THEN 0 ELSE nth(Cardinality(ends))
    IN  [ chunks |-> [ k \in 1..Cardinality(ends) |-> SubSeq(buffer, start(k), nth(k) - 1) ],
          rest |-> SubSeq(buffer, last + 1, Len(buffer)) ]

SplitBuffer(buffer) ==
    LET ends == { i \in 1..Len(buffer) : SubSeq(buffer, i, i) \in SENTENCE_ENDINGS }
        nth(k) == CHOOSE i \in ends : Cardinality({ j \in ends : j <= i }) = k
        start(k) == IF k = 1 THEN 1 ELSE nth(k - 1) + 1
        last == IF ends = {} THEN 0 ELSE nth(Cardinality(ends))
    IN  [ chunks |-> [ k \in 1..Cardinality(ends) |-> SubSeq(buffer, start(k), nth(k)) ],
          rest |-> SubSeq(buffer, last + 1, Len(buffer)) ]

\* for chunk in llm_stream: ... ; if sentence_buffer: yield it
RECURSIVE StreamChunks(_, _, _)
StreamChunks(tokens, sentence_buffer, chunks) ==
    IF tokens = << >>
    THEN IF sentence_buffer /= "" THEN Append(chunks, sentence_buffer) ELSE chunks
    ELSE LET r == SplitBuffer(sentence_buffer \o Head(tokens))
         IN  StreamChunks(Tail(tokens), r.rest, chunks \o r.chunks)

RECURSIVE Concat(_)
Concat(ss) == IF ss = << >> THEN "" ELSE Head(ss) \o Concat(Tail(ss))

\* ------------------------------------------------------ Python dict helpers
EmptyDict == [k \in {} |-> TRUE]

Get(d, k, default) == IF k \in DOMAIN d THEN d[k] ELSE default

Put(d, k, v) == [x \in (DOMAIN d) \cup {k} |-> IF x = k THEN v ELSE d[x]]

\* dict.update(other)
Update(d, other) ==
    [x \in (DOMAIN d) \cup (DOMAIN other) |->
        IF x \in DOMAIN other THEN other[x] ELSE d[x]]

Del(m, k) == [x \in (DOMAIN m) \ {k} |-> m[x]]

RECURSIVE Without(_, _)
Without(seq, x) ==
    IF seq = << >> THEN << >>
    ELSE IF Head(seq) = x THEN Without(Tail(seq), x)
    ELSE << Head(seq) >> \o Without(Tail(seq), x)

\* ----------------------------------------------------------- input domains
Msg(t) ==
    IF t = 1 THEN "Hi, I need a 2BR"
    ELSE IF t = 2 THEN "What are the pet fees?"
    ELSE "Can I tour on Friday?"

\* Replies the DialogueResponder (ava.process_turn / lookup_faq / the token
\* stream) may produce.
Replies ==
    { "I'm not sure about that.",
      "What bedroom size are you looking for? [1 BR|2 BR|3 BR]",
      "You've been pre-qualified! Want a virtual tour?" }

\* The token stream of the streaming variant delivers a reply in two tokens.
Tokens(reply) ==
    LET k == Len(reply) \div 2
    IN  << SubSeq(reply, 1, k), SubSeq(reply, k + 1, Len(reply)) >>

\* JSON objects the SlotExtractor may emit as text or as tool-call arguments.
\* The extractor is handed the whole session dict as current_data, so its
\* output can carry any key of that dict.
ExtractorObjects ==
    { [desired_bedrooms |-> "2"],
      [desired_bedrooms |-> None],
      [history |-> << >>],
      [summary_generated |-> TRUE] }

ToolCallKinds == {"ok", "raise", "unusable", "nomerge"}

\* Responses of the chat-completions call in helper.process_turn:
\*   api = "error"           the call raised
\*   tool_calls              outcome of each write_lead_record tool call:
\*                           "ok" (written and merged), "raise" (arguments
\*                           unparsable or the write raised), "unusable" (no
\*                           lead data found), "nomerge" (written, but the
\*                           record is not an object and the merge raised)
\*   content                 "none" (no text), "unparsable", "nonobject"
\*                           (JSON list/number/string) or "object" with updated
ExtractorResponses ==
    { [api |-> "error", tool_calls |-> << >>, content |-> "none", updated |-> EmptyDict] }
    \cup
    { [api |-> "ok", tool_calls |-> << >>, content |-> c, updated |-> EmptyDict] :
        c \in {"none", "unparsable", "nonobject"} }
    \cup
    { [api |-> "ok", tool_calls |-> << >>, content |-> "object", updated |-> u] :
        u \in ExtractorObjects }
    \cup
    { [api |-> "ok", tool_calls |-> << [kind |-> k, record |-> [desired_bedrooms |-> "2"]] >>,
       content |-> "none", updated |-> EmptyDict] : k \in ToolCallKinds }

\* Outcomes of the structured-summary call in generate_and_send_summary:
\* a JSON object with the four fields, a failure (exception, timeout, text
\* that is not JSON), or JSON that lacks a field / is not an object.
SummaryOutcomes ==
    { [kind |-> "json", qualified |-> q] : q \in {"Yes", "No"} }
    \cup { [kind |-> "failed", qualified |-> "Unknown"],
           [kind |-> "incomplete", qualified |-> "Unknown"] }

\* ------------------------------------------------------------------- state
VARIABLES
    now,            \* time.time()
    conversations,  \* conversation_id -> session dict
    conv_order,     \* insertion order of the keys of conversations
    lock,           \* holder of conversations_lock: Free or a request
    turn,           \* per request: position and locals of chat / chat_stream
    sweep,          \* position and locals of check_inactive_conversations
    persisted,      \* calls made to the persistence collaborator
    ghost,          \* history variables used to state properties
    probe           \* a pure function under test: its input and its result

vars == << now, conversations, conv_order, lock, turn, sweep, persisted, ghost, probe >>

IdleTurn ==
    [ pc |-> "idle", endpoint |-> "chat", cid |-> "c1", msg |-> "", end_signal |-> FALSE,
      done |-> FALSE, raw |-> "", reply |-> "", is_fallback |-> FALSE,
      kb_pending |-> None, variables |-> << >>,
      delivered |-> << >>, orphan |-> FALSE, resumed |-> FALSE,
      error |-> None ]                     \* what made the request raise

IdleSweep ==
    [ pc |-> "idle", current_time |-> 0, inactive |-> << >>, cid |-> "c1" ]

IdleGhost ==
    [ finals |-> [c \in Ids |-> 0],        \* final_summary stores since the last turn began
      handled |-> [c \in Ids |-> FALSE],   \* a sweep ran finalization on non-empty history since then
      entered |-> [c \in Ids |-> << >>],   \* turns that completed the locked section, in order
      resumed |-> [c \in Ids |-> FALSE],  \* the last turn arrived after a summary
      invocations |-> 0,                   \* finalizations of non-empty history that returned
      scanned |-> << >>,                   \* candidates the running sweep collected
      processed |-> << >>,                 \* candidates it has passed to finalization
      failed |-> {},                       \* candidates whose finalization raised
      call |-> "none" ]                    \* last finalization call: "clean" if the id was
                                           \* stored and no turn of it ran since the call began

NoProbe == [fn |-> None, input |-> None, output |-> None, applied |-> FALSE]

Init ==
    /\ now = 0
    /\ conversations = EmptyDict
    /\ conv_order = << >>
    /\ lock = Free
    /\ turn = [t \in Turns |-> IdleTurn]
    /\ sweep = IdleSweep
    /\ persisted = << >>
    /\ ghost = IdleGhost
    /\ probe = NoProbe

\* Turns of conversation c that hold a reference to its session dict.
InFlight(c) ==
    { t \in Turns : turn[t].cid = c /\ turn[t].pc \notin {"idle", "returned", "failed", "closed"} }

\* del conversations[c]: requests that still hold the dict keep an orphan.
Orphaned(c) ==
    [t \in Turns |-> IF t \in InFlight(c) THEN [turn[t] EXCEPT !.orphan = TRUE] ELSE turn[t]]

\* ------------------------------------------------------------------ clock
Tick ==
    \E d \in TickSteps :
        /\ now + d <= MaxTime
        /\ now' = now + d
        /\ UNCHANGED << probe, conversations, conv_order, lock, turn, sweep, persisted, ghost >>

\* ------------------------------------------------- helper.process_turn
\* Index of the first tool call whose write_lead_record and merge succeeded
\* (the loop returns there), 0 if none.
FirstWritten(tool_calls) ==
    LET ok == { i \in 1..Len(tool_calls) : tool_calls[i].kind = "ok" }
    IN  IF ok = {} THEN 0 ELSE CHOOSE i \in ok : \A j \in ok : i <= j

\* Number of write_lead_record calls that succeeded before the loop was left.
Writes(tool_calls) ==
    LET last == IF FirstWritten(tool_calls) = 0 THEN Len(tool_calls)
                ELSE FirstWritten(tool_calls)
    IN  Cardinality({ i \in 1..last : tool_calls[i].kind \in {"ok", "nomerge"} })

\* Result of helper.process_turn as seen by its caller: raised is TRUE when
\* the call raises ("merge": current_data.update of a JSON value that is not
\* an object) or returns None ("unpack": the caller's tuple unpacking raises).
helper_process_turn(current_data, rsp) ==
    IF rsp.api = "error"
    THEN [raised |-> FALSE, error |-> None, data |-> current_data, done |-> FALSE]
    ELSE IF FirstWritten(rsp.tool_calls) /= 0
    THEN [raised |-> FALSE, error |-> None,
          data |-> Update(current_data, rsp.tool_calls[FirstWritten(rsp.tool_calls)].record),
          done |-> TRUE]
    ELSE IF rsp.content = "none"
    THEN [raised |-> TRUE, error |-> "unpack", data |-> current_data, done |-> FALSE]
    ELSE IF rsp.content = "unparsable"
    THEN [raised |-> FALSE, error |-> None, data |-> current_data, done |-> FALSE]
    ELSE IF rsp.content = "nonobject"
    THEN [raised |-> TRUE, error |-> "merge", data |-> current_data, done |-> FALSE]
    ELSE [raised |-> FALSE, error |-> None,
          data |-> Update(current_data, rsp.updated), done |-> FALSE]

\* ---------------------------------------------------------------- turns
\* with conversations_lock: setdefault, last_activity_time, stale-summary reset
Touch(data) ==
    LET d1 == Put(data, "last_activity_time", now)
    IN  IF Get(d1, "summary_generated", FALSE)
           /\ Get(d1, "summary_generated_at", 0) < d1["last_activity_time"]
        THEN Put(d1, "summary_generated", FALSE)
        ELSE d1

\* chat / chat_stream up to the call of the SlotExtractor (lock taken)
TurnBegin(t, signals) ==
    /\ turn[t].pc = "idle"
    /\ lock = Free
    /\ \E c \in IdsFor(t), e \in {"chat", "stream"}, sig \in signals :
        LET data == Get(conversations, c, EmptyDict)
        IN  /\ conversations' = Put(conversations, c, Touch(data))
            /\ conv_order' = IF c \in DOMAIN conversations THEN conv_order
                             ELSE Append(conv_order, c)
            /\ turn' = [turn EXCEPT ![t] =
                    [IdleTurn EXCEPT !.pc = "extract", !.endpoint = e, !.cid = c,
                                     !.msg = Msg(t), !.end_signal = sig,
                                     !.resumed = (Get(data, "summary_generated", FALSE)
                                                  /\ Get(data, "summary_generated_at", 0) < now)]]
            /\ ghost' = [ghost EXCEPT !.finals[c] = 0, !.handled[c] = FALSE,
                                      !.call = IF @ /= "none" /\ c = sweep.cid
                                               THEN "dirty" ELSE @,
                                      !.resumed[c] = (Get(data, "summary_generated", FALSE)
                                                      /\ Get(data, "summary_generated_at", 0) < now)]
    /\ lock' = t
    /\ UNCHANGED << probe, now, sweep, persisted >>

\* data["history"].append({"user": req.user_message})
AppendTurn(data, t) ==
    Put(data, "history",
        Append(Get(data, "history", << >>),
               [user |-> turn[t].msg, ava |-> None, by |-> t, writers |-> << >>]))

\* the SlotExtractor returns: merge, history append, lock released
TurnExtract(t, responses) ==
    /\ turn[t].pc = "extract"
    /\ lock = t
    /\ \E rsp \in responses :
        LET c == turn[t].cid
            r == helper_process_turn(conversations[c], rsp)
        IN  IF r.raised
            THEN /\ turn' = [turn EXCEPT ![t].pc = "failed", ![t].error = r.error]
                 /\ UNCHANGED << conversations, ghost >>
            ELSE /\ conversations' = Put(conversations, c, AppendTurn(r.data, t))
                 /\ turn' = [turn EXCEPT ![t].pc = IF r.done THEN "terminal" ELSE "respond",
                                         ![t].done = r.done]
                 /\ ghost' = [ghost EXCEPT !.entered[c] = Append(@, t)]
    /\ lock' = Free
    /\ UNCHANGED << probe, now, conv_order, sweep, persisted >>

AllFalse ==
    [ i \in 1..Len(all_variables) |-> [name |-> all_variables[i], value |-> FALSE] ]

Fragment(kind, text, variables) == [kind |-> kind, text |-> text, variables |-> variables]

\* if done: terminal response, DialogueResponder not invoked
TurnTerminal(t) ==
    /\ turn[t].pc = "terminal"
    /\ turn' = [turn EXCEPT ![t].pc = "returned",
                            ![t].variables = AllFalse,
                            ![t].delivered =
                                IF turn[t].endpoint = "chat"
                                THEN << Fragment("reply", "", AllFalse) >>
                                ELSE << Fragment("chunk", "Session ended by signal.", AllFalse) >>]
    /\ UNCHANGED << probe, now, conversations, conv_order, lock, sweep, persisted, ghost >>

PQ_PHRASE == "ve been pre-qualified"

\* What the handlers compute from the DialogueResponder's reply: detect_fallback,
\* the substitution of FALLBACK_RESPONSE, get_triggered_variable and the
\* variable map. Tabulated once per possible reply.
Annotation(raw) ==
    LET fb == detect_fallback(raw, NoScore)
        reply == IF fb THEN FALLBACK_RESPONSE ELSE raw
        triggered_var == get_triggered_variable(reply)
    IN  [is_fallback |-> fb, reply |-> reply, triggered |-> triggered_var,
         variables |-> VariableMap(triggered_var),
         pq |-> Contains(Lower(reply), PQ_PHRASE),
         chunks |-> StreamChunks(Tokens(raw), "", << >>),
         full_response |-> Concat(Tokens(raw))]

Annotations == [raw \in Replies |-> Annotation(raw)]

Annotate(rec, raw) ==
    LET a == Annotations[raw]
    IN  [rec EXCEPT !.raw = raw, !.is_fallback = a.is_fallback, !.reply = a.reply,
                    !.kb_pending = IF a.is_fallback THEN rec.msg ELSE None,
                    !.variables = a.variables]

\* data["history"][-1]["ava"] = reply
AttachReply(data, t, reply) ==
    LET h == data["history"]
    IN  Put(data, "history",
            [h EXCEPT ![Len(h)] = [@ EXCEPT !.ava = reply, !.writers = Append(@, t)]])

SetFallback(data, kb_pending) ==
    Put(Put(data, "fallback_triggered", TRUE), "kb_pending", kb_pending)

\* The dict a request holds: the stored session, or an orphan after eviction.
Held(t) == IF turn[t].orphan THEN EmptyDict ELSE conversations[turn[t].cid]

\* The store after the dict a request holds has become d (an orphan is in no store).
Mutate(t, d) ==
    IF turn[t].orphan THEN conversations
    ELSE Put(conversations, turn[t].cid, d)

\* /chat: the call of ava_agent.process_turn (non-FAQ) raises
ChatFail(t) ==
    /\ turn[t].pc = "respond"
    /\ turn[t].endpoint = "chat"
    /\ turn' = [turn EXCEPT ![t].pc = "failed", ![t].error = "responder"]
    /\ UNCHANGED << probe, now, conversations, conv_order, lock, sweep, persisted, ghost >>

\* /chat: is_faq_question, ava_agent.process_turn, detect_fallback,
\* get_triggered_variable, then with conversations_lock: the reply is attached
\* to history[-1] and the fallback flags are set; the response is returned
ChatReply(t, replies) ==
    /\ turn[t].pc = "respond"
    /\ turn[t].endpoint = "chat"
    /\ lock = Free
    /\ \E raw \in replies :
        LET a == Annotate(turn[t], raw)
            attach(d) == LET d1 == AttachReply(d, t, a.reply)
                         IN  IF a.is_fallback THEN SetFallback(d1, a.kb_pending) ELSE d1
        IN  IF ~turn[t].orphan /\ Get(Held(t), "history", << >>) = << >>
            THEN /\ turn' = [turn EXCEPT ![t].pc = "failed", ![t].error = "attach"]
                 /\ UNCHANGED conversations
            ELSE /\ conversations' = Mutate(t, attach(Held(t)))
                 /\ turn' = [turn EXCEPT ![t] =
                       [a EXCEPT !.pc = "returned",
                                 !.delivered = << Fragment("reply", a.reply, a.variables) >>]]
    /\ UNCHANGED << probe, now, conv_order, lock, sweep, persisted, ghost >>

\* /chat/stream, FAQ path: lookup_faq answer, detect_fallback (then with
\* conversations_lock: the fallback flags), faq_response_generator's three
\* fragments. history[-1] is not touched on this path.
StreamFaq(t, replies) ==
    /\ turn[t].pc = "respond"
    /\ turn[t].endpoint = "stream"
    /\ \E raw \in replies :
        LET a == Annotate(turn[t], raw)
        IN  /\ a.is_fallback => lock = Free
            /\ conversations' = IF a.is_fallback
                                THEN Mutate(t, SetFallback(Held(t), a.kb_pending))
                                ELSE conversations
            /\ turn' = [turn EXCEPT ![t] =
                  [a EXCEPT !.pc = "returned",
                            !.delivered = << Fragment("meta", "", a.variables),
                                             Fragment("chunk", a.reply, << >>),
                                             Fragment("final", a.reply, a.variables) >>]]
    /\ UNCHANGED << probe, now, conv_order, lock, sweep, persisted, ghost >>

\* /chat/stream, LLM path: client.chat.completions.create(stream=True) raises
StreamFail(t) ==
    /\ turn[t].pc = "respond"
    /\ turn[t].endpoint = "stream"
    /\ turn' = [turn EXCEPT ![t].pc = "failed", ![t].error = "responder"]
    /\ UNCHANGED << probe, now, conversations, conv_order, lock, sweep, persisted, ghost >>

ChunkFragments(chunks) ==
    [ i \in 1..Len(chunks) |-> Fragment("chunk", chunks[i], << >>) ]

\* /chat/stream, LLM path: sentence_by_sentence_generator yields the metadata
\* fragment and the sentence chunks of the token stream, then runs
\* detect_fallback on the full response
StreamGenerate(t, replies) ==
    /\ turn[t].pc = "respond"
    /\ turn[t].endpoint = "stream"
    /\ \E raw \in replies :
        LET a == Annotations[raw]
        IN  turn' = [turn EXCEPT ![t] =
              [Annotate(turn[t], a.full_response) EXCEPT
                  !.delivered = << Fragment("meta", "", AllFalse) >> \o ChunkFragments(a.chunks),
                  !.pc = IF a.is_fallback THEN "st_flags"
                         ELSE IF a.pq THEN "st_pq"
                         ELSE "st_attach"]]
    /\ UNCHANGED << probe, now, conversations, conv_order, lock, sweep, persisted, ghost >>

\* LLM path: with conversations_lock: fallback_triggered, kb_pending
StreamFlags(t) ==
    /\ turn[t].pc = "st_flags"
    /\ lock = Free
    /\ conversations' = Mutate(t, SetFallback(Held(t), turn[t].kb_pending))
    /\ turn' = [turn EXCEPT ![t].pc = "st_attach"]
    /\ UNCHANGED << probe, now, conv_order, lock, sweep, persisted, ghost >>

\* LLM path: with conversations_lock: data["pq_completed"] = True
StreamPq(t) ==
    /\ turn[t].pc = "st_pq"
    /\ lock = Free
    /\ conversations' = Mutate(t, Put(Held(t), "pq_completed", TRUE))
    /\ turn' = [turn EXCEPT ![t].pc = "st_attach"]
    /\ UNCHANGED << probe, now, conv_order, lock, sweep, persisted, ghost >>

\* LLM path: the final fragment (completed_reply, final_variables_update), then
\* with conversations_lock: data["history"][-1]["ava"] = full_response
StreamAttach(t) ==
    /\ turn[t].pc = "st_attach"
    /\ lock = Free
    /\ LET final == Fragment("final", turn[t].reply, turn[t].variables)
       IN  IF ~turn[t].orphan /\ Get(Held(t), "history", << >>) = << >>
           THEN /\ turn' = [turn EXCEPT ![t].pc = "failed", ![t].error = "attach",
                                        ![t].delivered = Append(@, final)]
                /\ UNCHANGED conversations
           ELSE /\ conversations' = Mutate(t, AttachReply(Held(t), t, turn[t].reply))
                /\ turn' = [turn EXCEPT ![t].pc = "returned", ![t].delivered = Append(@, final)]
    /\ UNCHANGED << probe, now, conv_order, lock, sweep, persisted, ghost >>

\* ------------------------------------------------------- inactivity sweep
\* check_inactive_conversations is entered (max_instances=1: never while a
\* previous run is active); current_time = time.time()
SweepStart ==
    /\ sweep.pc = "idle"
    /\ sweep' = [IdleSweep EXCEPT !.pc = "scan", !.current_time = now]
    /\ UNCHANGED << probe, now, conversations, conv_order, lock, turn, persisted, ghost >>

Eligible(conv_data, current_time) ==
    LET last_activity_time == Get(conv_data, "last_activity_time", 0)
        summary_generated == Get(conv_data, "summary_generated", FALSE)
        summary_generated_at == Get(conv_data, "summary_generated_at", 0)
    IN  /\ current_time - last_activity_time > IdleThreshold
        /\ \/ ~summary_generated
           \/ (summary_generated /\ last_activity_time > summary_generated_at)

RECURSIVE Candidates(_, _)
Candidates(keys, current_time) ==
    IF keys = << >> THEN << >>
    ELSE (IF Eligible(conversations[Head(keys)], current_time)
          THEN << Head(keys) >> ELSE << >>)
         \o Candidates(Tail(keys), current_time)

\* with conversations_lock: collect the inactive conversation ids
\* (current_time is not read again after the scan)
SweepScan ==
    /\ sweep.pc = "scan"
    /\ lock = Free
    /\ sweep' = [sweep EXCEPT !.pc = "loop", !.current_time = 0,
                              !.inactive = Candidates(conv_order, sweep.current_time)]
    /\ ghost' = [ghost EXCEPT !.scanned = Candidates(conv_order, sweep.current_time)]
    /\ UNCHANGED << probe, now, conversations, conv_order, lock, turn, persisted >>

\* the loop over inactive_conversations is exhausted: the job ends
SweepEnd ==
    /\ sweep.pc = "loop"
    /\ sweep.inactive = << >>
    /\ sweep' = IdleSweep
    /\ ghost' = [ghost EXCEPT !.scanned = << >>, !.processed = << >>,
                              !.failed = {}, !.call = "none"]
    /\ UNCHANGED << probe, now, conversations, conv_order, lock, turn, persisted >>

\* next candidate; generate_and_send_summary: with conversations_lock: return
\* if the id is gone, else copy the session and look at its history
FinCopy ==
    /\ sweep.pc = "loop"
    /\ sweep.inactive /= << >>
    /\ lock = Free
    /\ LET c == Head(sweep.inactive)
       IN  /\ sweep' = [sweep EXCEPT
                        !.inactive = Tail(sweep.inactive),
                        !.cid = c,
                        !.pc = IF c \notin DOMAIN conversations THEN "loop"
                               ELSE IF Get(conversations[c], "history", << >>) = << >>
                               THEN "fin_delete"
                               ELSE "fin_llm"]
           /\ ghost' = [ghost EXCEPT
                        !.processed = Append(@, c),
                        !.call = IF c \in DOMAIN conversations /\ InFlight(c) = {}
                                 THEN "clean" ELSE "dirty"]
    /\ UNCHANGED << probe, now, conversations, conv_order, lock, turn, persisted >>

\* A handler that leaves the conversation in the store.
EvictKept(c) ==
    UNCHANGED << conversations, conv_order, turn >>

\* del conversations[conversation_id] (if still present)
Evict(c) ==
    /\ conversations' = Del(conversations, c)
    /\ conv_order' = Without(conv_order, c)
    /\ turn' = IF c \in DOMAIN conversations THEN Orphaned(c) ELSE turn

\* generate_and_send_summary: empty history, the conversation is removed
FinDelete ==
    /\ sweep.pc = "fin_delete"
    /\ lock = Free
    /\ Evict(sweep.cid)
    /\ sweep' = [sweep EXCEPT !.pc = "loop"]
    /\ ghost' = [ghost EXCEPT !.entered[sweep.cid] = << >>]
    /\ UNCHANGED << probe, now, lock, persisted >>

\* api_response built from summary_data
ApiResponse(c, o) ==
    [conversation_id |-> c, qualified |-> o.qualified, is_qualified |-> (o.qualified = "Yes")]

\* A store of the summary that forgets the summary_generated flag.
MarkSummarizedNoFlag(data, api_response) ==
    Put(Put(data, "final_summary", api_response), "summary_generated_at", now)

MarkSummarized(data, api_response) ==
    Put(Put(Put(data, "final_summary", api_response),
            "summary_generated", TRUE),
        "summary_generated_at", now)

\* generate_and_send_summary: the intent summary and the structured summary
\* (a JSON object, or the placeholder after a failure), then with
\* conversations_lock: final_summary, summary_generated, summary_generated_at
FinStore ==
    /\ sweep.pc = "fin_llm"
    /\ lock = Free
    /\ \E o \in { x \in SummaryOutcomes : x.kind /= "incomplete" } :
        LET c == sweep.cid IN
        /\ conversations' = IF c \in DOMAIN conversations
                            THEN Put(conversations, c,
                                     MarkSummarized(conversations[c], ApiResponse(c, o)))
                            ELSE conversations
        /\ ghost' = [ghost EXCEPT !.finals[c] = IF c \in DOMAIN conversations THEN @ + 1 ELSE @,
                                  !.handled[c] = TRUE,
                                  !.invocations = @ + 1]
    /\ sweep' = [sweep EXCEPT !.pc = "loop"]
    /\ UNCHANGED << probe, now, conv_order, lock, turn, persisted >>

\* generate_and_send_summary: the structured summary parses but lacks a field
\* (or is not an object): building api_response raises, and the outer handler,
\* with conversations_lock, removes the conversation
FinEvict ==
    /\ sweep.pc = "fin_llm"
    /\ lock = Free
    /\ \E o \in { x \in SummaryOutcomes : x.kind = "incomplete" } :
        /\ Evict(sweep.cid)
        /\ ghost' = [ghost EXCEPT !.entered[sweep.cid] = << >>,
                                  !.handled[sweep.cid] = TRUE,
                                  !.failed = @ \cup {sweep.cid},
                                  !.invocations = @ + 1]
    /\ sweep' = [sweep EXCEPT !.pc = "loop"]
    /\ UNCHANGED << probe, now, lock, persisted >>

\* ------------------------------------------------------------ specification
\* the request is over: its locals are gone
TurnClose(t) ==
    /\ turn[t].pc \in {"returned", "failed"}
    /\ turn' = [turn EXCEPT ![t] = [IdleTurn EXCEPT !.pc = "closed"]]
    /\ UNCHANGED << probe, now, conversations, conv_order, lock, sweep, persisted, ghost >>

TurnStep(t, signals, replies, responses) ==
    \/ TurnBegin(t, signals)
    \/ TurnExtract(t, responses)
    \/ TurnTerminal(t)
    \/ ChatFail(t)
    \/ ChatReply(t, replies)
    \/ StreamFaq(t, replies)
    \/ StreamFail(t)
    \/ StreamGenerate(t, replies)
    \/ StreamFlags(t)
    \/ StreamPq(t)
    \/ StreamAttach(t)
    \/ TurnClose(t)

SweepStep ==
    \/ SweepStart
    \/ SweepScan
    \/ SweepEnd
    \/ FinCopy
    \/ FinDelete
    \/ FinStore
    \/ FinEvict

Next ==
    \/ Tick
    \/ \E t \in Turns : TurnStep(t, BOOLEAN, Replies, ExtractorResponses)
    \/ SweepStep

Spec == Init /\ [][Next]_vars

\* Concurrent requests with no sweep job firing and the clock standing still.
NextTurns == \E t \in 1..MaxConcurrent : TurnStep(t, BOOLEAN, Replies, ExtractorResponses)

SpecTurns == Init /\ [][NextTurns]_vars

\* Requests arriving one at a time, together with the clock and the sweep job.
Solo(t) == \A u \in Turns \ {t} : turn[u].pc \in {"idle", "closed"}

SweepReplies ==
    { "I'm not sure about that.",
      "You've been pre-qualified! Want a virtual tour?" }

SweepResponses ==
    { r \in ExtractorResponses :
        \/ r.api = "error"
        \/ r.tool_calls = << >> /\ r.content = "none"
        \/ r.content = "object" /\ r.updated = [summary_generated |-> TRUE]
        \/ r.tool_calls /= << >> /\ r.tool_calls[1].kind = "ok" }

NextSweep ==
    \/ Tick
    \/ \E t \in 1..MaxSweepTurns : Solo(t) /\ TurnStep(t, {FALSE}, SweepReplies, SweepResponses)
    \/ SweepStep

SpecSweep == Init /\ [][NextSweep]_vars

\* Requests arriving one at a time, with no sweep job firing.
NextSerial == \E t \in Turns : Solo(t) /\ TurnStep(t, BOOLEAN, Replies, ExtractorResponses)

SpecSerial == Init /\ [][NextSerial]_vars

\* Concurrent requests and the sweep job's scan with the clock standing still.
\* Every step that waits for nothing but the scheduler or conversations_lock is
\* taken in the end; the return of the SlotExtractor call (TurnExtract) is not:
\* the call is made with no timeout argument and may never return.
HangResponses ==
    { r \in ExtractorResponses :
        \/ r.api = "error"
        \/ r.tool_calls /= << >> /\ r.tool_calls[1].kind = "ok" }

NextHang ==
    \/ \E t \in 1..MaxConcurrent : TurnStep(t, {FALSE}, SweepReplies, HangResponses)
    \/ SweepStart
    \/ SweepScan
    \/ SweepEnd

AfterExtract(t) ==
    \/ TurnTerminal(t)
    \/ ChatReply(t, SweepReplies)
    \/ StreamFaq(t, SweepReplies)
    \/ StreamGenerate(t, SweepReplies)
    \/ StreamFlags(t)
    \/ StreamPq(t)
    \/ StreamAttach(t)

FairHang ==
    /\ WF_vars(SweepScan)
    /\ WF_vars(SweepEnd)
    /\ \A t \in 1..MaxConcurrent : WF_vars(AfterExtract(t))

SpecHang == Init /\ [][NextHang]_vars /\ FairHang

\* A conversation that receives its turns and then goes quiet, with the clock
\* and the sweep job running. time.time() is a positive epoch time. The clock
\* keeps advancing and the scheduler keeps firing the sweep job, each of whose
\* steps waits for nothing but conversations_lock; nothing is assumed about
\* the arrival of requests.
MaxIdleTurns == 1

\* The SlotExtractor's JSON may carry the bookkeeping keys of the session it
\* was handed as current_data, with a timestamp later than any turn.
IdleResponses ==
    SweepResponses
    \cup { [api |-> "ok", tool_calls |-> << >>, content |-> "object",
            updated |-> [summary_generated |-> TRUE, summary_generated_at |-> MaxTime]] }

InitIdle ==
    /\ now = 1
    /\ conversations = EmptyDict
    /\ conv_order = << >>
    /\ lock = Free
    /\ turn = [t \in Turns |-> IdleTurn]
    /\ sweep = IdleSweep
    /\ persisted = << >>
    /\ ghost = IdleGhost
    /\ probe = NoProbe

NextIdle ==
    \/ Tick
    \/ \E t \in 1..MaxIdleTurns : Solo(t) /\ TurnStep(t, {FALSE}, SweepReplies, IdleResponses)
    \/ SweepStep

FairIdle ==
    /\ WF_vars(Tick)
    /\ WF_vars(SweepStep)

SpecIdle == InitIdle /\ [][NextIdle]_vars /\ FairIdle


\* ------------------------------------------------- pure functions under test
\* Replies handed to get_triggered_variable.
TriggerInputs ==
    { "", "Hello there", "Your Full Name please",
      "What BEDROOM SIZE and price range?",
      "Book a Virtual Tour or pick a move-in date",
      "save $50, save more", "$25, save now",
      "Is...? Are...?", "Is this ok?" }

RECURSIVE SeqsUpTo(_, _)
SeqsUpTo(S, n) ==
    IF n = 0 THEN { << >> }
    ELSE SeqsUpTo(S, n - 1)
         \cup { Append(q, x) : q \in { r \in SeqsUpTo(S, n - 1) : Len(r) = n - 1 }, x \in S }

\* Chat-completion responses handed to helper.process_turn, with up to MaxCalls
\* tool calls; the tool-call record and the text object carry different keys.
HelperInputs ==
    { [api |-> "error", tool_calls |-> << >>, content |-> "none", updated |-> EmptyDict] }
    \cup
    { [api |-> "ok", tool_calls |-> calls, content |-> c,
       updated |-> IF c = "object" THEN [desired_bedrooms |-> "2"] ELSE EmptyDict] :
        calls \in SeqsUpTo({ [kind |-> k, record |-> [prospect_name |-> "Ann"]] :
                               k \in ToolCallKinds }, MaxCalls),
        c \in {"none", "unparsable", "nonobject", "object"} }

\* Token streams handed to sentence_by_sentence_generator.
TokenInputs ==
    SeqsUpTo({ "", "Sure", ".", " We have 1 and 2 bedroom homes", "! Which", "?.." },
             MaxTokens)

InitPure ==
    /\ now = 0
    /\ conversations = EmptyDict
    /\ conv_order = << >>
    /\ lock = Free
    /\ turn = [t \in Turns |-> IdleTurn]
    /\ sweep = IdleSweep
    /\ persisted = << >>
    /\ ghost = IdleGhost
    /\ probe \in { [fn |-> "get_triggered_variable", input |-> x, output |-> None,
                    applied |-> FALSE] : x \in TriggerInputs }
               \cup { [fn |-> "process_turn", input |-> x, output |-> None,
                       applied |-> FALSE] : x \in HelperInputs }
               \cup { [fn |-> "generator", input |-> x, output |-> None,
                       applied |-> FALSE] : x \in TokenInputs }

Applied(output) ==
    /\ ~probe.applied
    /\ probe' = [probe EXCEPT !.output = output, !.applied = TRUE]
    /\ UNCHANGED << now, conversations, conv_order, lock, turn, sweep, persisted, ghost >>

ApplyTrigger ==
    /\ probe.fn = "get_triggered_variable"
    /\ Applied(get_triggered_variable(probe.input))

\* helper.process_turn on a session that holds one slot
ApplyHelper ==
    /\ probe.fn = "process_turn"
    /\ LET r == helper_process_turn([desired_bedrooms |-> "1"], probe.input)
       IN  Applied([raised |-> r.raised, data |-> r.data, done |-> r.done,
                    writes |-> IF probe.input.api = "error" THEN 0
                               ELSE Writes(probe.input.tool_calls)])

\* sentence_by_sentence_generator: the reply_chunk fragments and completed_reply
ApplyGenerator ==
    /\ probe.fn = "generator"
    /\ LET full_response == Concat(probe.input)
           is_fallback == detect_fallback(full_response, NoScore)
       IN  Applied([chunks |-> StreamChunks(probe.input, "", << >>),
                    is_fallback |-> is_fallback,
                    completed_reply |-> IF is_fallback THEN FALLBACK_RESPONSE
                                        ELSE full_response])

NextPure ==
    \/ ApplyTrigger
    \/ ApplyHelper
    \/ ApplyGenerator

SpecPure == InitPure /\ [][NextPure]_vars

\* -------------------------------------------------------------- properties
History(c) == Get(conversations[c], "history", << >>)

\* C1: once a sweep has run finalization on an idle session with non-empty
\* history, and no turn has begun since, the session is in the store with
\* final_summary stored exactly once and summary_generated = true.
C1_IdleSweepFinalizesOnce ==
    \A c \in Ids :
        ghost.handled[c] =>
            /\ c \in DOMAIN conversations
            /\ "final_summary" \in DOMAIN conversations[c]
            /\ Get(conversations[c], "summary_generated", FALSE)
            /\ ghost.finals[c] = 1

\* C2: a turn that arrives strictly after summary_generated_at on a summarized
\* session leaves summary_generated = false when its locked section ends, and
\* the next finalization a sweep runs on that session stores a final summary.
C2_ResumedTurnClearsFlag ==
    /\ \A t \in Turns :
          (turn[t].resumed /\ turn[t].pc \in {"respond", "terminal"} /\ ~turn[t].orphan
             /\ "final_summary" \in DOMAIN conversations[turn[t].cid]
             /\ ghost.finals[turn[t].cid] = 0)
          => ~Get(conversations[turn[t].cid], "summary_generated", FALSE)
    /\ \A c \in Ids :
          (ghost.handled[c] /\ ghost.resumed[c])
          => (c \in DOMAIN conversations /\ ghost.finals[c] = 1)

\* C3: while a /chat turn is between its history append and its reply
\* attachment, the last TurnRecord of the session is the one it appended.
C3_TurnsSerialized ==
    \A t \in Turns :
        (turn[t].endpoint = "chat" /\ turn[t].pc = "respond" /\ ~turn[t].orphan)
        => LET h == History(turn[t].cid)
           IN  h /= << >> /\ h[Len(h)].by = t

\* C4: every TurnRecord has had its 'ava' reply written at most once.
C4_ReplyWrittenAtMostOnce ==
    \A c \in DOMAIN conversations :
        \A i \in 1..Len(History(c)) : Len(History(c)[i].writers) <= 1

\* C5: while conversations_lock is free, summary_generated = true implies
\* last_activity_time <= summary_generated_at.
C5_SummaryNotStale ==
    lock = Free =>
        \A c \in DOMAIN conversations :
            Get(conversations[c], "summary_generated", FALSE)
            => Get(conversations[c], "last_activity_time", 0)
                 <= Get(conversations[c], "summary_generated_at", 0)

\* C6: the history of a session that was not evicted holds exactly one
\* TurnRecord per processed turn, in the order the turns entered the lock.
C6_HistoryMatchesTurns ==
    \A c \in DOMAIN conversations :
        /\ Len(History(c)) = Len(ghost.entered[c])
        /\ \A i \in 1..Len(History(c)) : History(c)[i].user = Msg(ghost.entered[c][i])

\* C7: no step shortens the history of a session that stays in the store.
C7_HistoryNeverShrinks ==
    [][ \A c \in (DOMAIN conversations) \cap (DOMAIN conversations') :
            Len(Get(conversations'[c], "history", << >>)) >= Len(History(c)) ]_vars

ReplyKinds == {"reply", "chunk", "final"}

\* C8: in a turn where detect_fallback is true, every reply text delivered to
\* the caller is FALLBACK_RESPONSE.
C8_FallbackSubstituted ==
    \A t \in Turns :
        turn[t].is_fallback =>
            \A i \in 1..Len(turn[t].delivered) :
                turn[t].delivered[i].kind \in ReplyKinds
                => turn[t].delivered[i].text = FALLBACK_RESPONSE

WellFormedMap(variables) ==
    /\ Len(variables) = Len(all_variables)
    /\ \A i \in 1..Len(variables) : variables[i].name = all_variables[i]
    /\ Cardinality({ i \in 1..Len(variables) : variables[i].value }) <= 1

\* C9: every variable map delivered to a caller has one entry per name of
\* all_variables and at most one true entry; on a terminal turn all are false.
C9_VariableMapExclusive ==
    \A t \in Turns :
        \A i \in 1..Len(turn[t].delivered) :
            LET variables == turn[t].delivered[i].variables
            IN  /\ variables /= << >> => WellFormedMap(variables)
                /\ turn[t].done => (variables /= << >>
                                    /\ \A j \in 1..Len(variables) : ~variables[j].value)

C9_Witness ==
    /\ \E t \in Turns :
          /\ turn[t].pc = "returned" /\ ~turn[t].done
          /\ \E j \in 1..Len(turn[t].variables) :
                turn[t].variables[j].name = "Bedroom_size" /\ turn[t].variables[j].value
    /\ \E t \in Turns : turn[t].pc = "returned" /\ turn[t].done

\* C10: every finalization of a session with non-empty history that has
\* returned has issued exactly one call to the persistence collaborator.
C10_OnePersistPerFinalize ==
    Len(persisted) = ghost.invocations

\* C14: no /chat turn ends by raising to its caller because the
\* DialogueResponder call failed (it returns an empty reply, done = false).
C14_ResponderFailureContained ==
    \A t \in Turns :
        turn[t].endpoint = "chat" => turn[t].error /= "responder"

\* C15: no turn raises to its caller because the SlotExtractor's output could
\* not be merged (JSON that is not an object); the slots stay as they were.
C15_UnmergeableOutputIgnored ==
    \A t \in Turns : turn[t].error /= "merge"

\* Positions of a request after its locked section in which the
\* DialogueResponder is being, or has been, invoked.
Responding == {"respond", "st_flags", "st_pq", "st_attach"}

\* C16: a turn with end_signal = true, or whose extractor returned done = true,
\* returns the terminal result (all variables false) without invoking the
\* DialogueResponder and without raising.
C16_EndSignalShortCircuits ==
    \A t \in Turns :
        (turn[t].end_signal \/ turn[t].done) =>
            /\ turn[t].pc \notin Responding \cup {"failed"}
            /\ turn[t].raw = ""
            /\ turn[t].pc = "returned" =>
                  \A i \in 1..Len(turn[t].delivered) :
                      turn[t].delivered[i].variables = AllFalse

\* C17: no request is inside its SlotExtractor call while it holds
\* conversations_lock.
C17_NoExternalCallUnderLock ==
    \A t \in Turns : turn[t].pc = "extract" => lock /= t

\* Positions after the locked section where a request reads the session dict
\* without the lock (json.dumps(data), data.get("history"), data.get("pq_completed")).
ReadsUnlocked(t) == turn[t].pc \in {"terminal", "respond"} /\ ~turn[t].orphan

\* C19: while a request, or the finalizer, is at a position where it reads the
\* session without conversations_lock, no other thread is inside a locked
\* section that mutates the same session.
C19_AccessOnlyUnderLock ==
    /\ \A t \in Turns : \A u \in Turns \ {t} :
          ReadsUnlocked(t) => ~(lock = u /\ turn[u].cid = turn[t].cid)
    /\ \A u \in Turns :
          sweep.pc = "fin_llm" => ~(lock = u /\ turn[u].cid = sweep.cid)

\* C20: no step replaces a non-null value of the slot desired_bedrooms by null.
C20_NullKeepsPreviousValue ==
    [][ \A c \in (DOMAIN conversations) \cap (DOMAIN conversations') :
            Get(conversations[c], "desired_bedrooms", None) /= None
            => Get(conversations'[c], "desired_bedrooms", None) /= None ]_vars

\* C11: once finalization has run on a session with non-empty history, and no
\* turn has begun since, the session carries a final_summary whose qualified
\* field is a value of the summary or the placeholder "Unknown".
C11_FinalizationAlwaysStores ==
    \A c \in Ids :
        ghost.handled[c] =>
            /\ c \in DOMAIN conversations
            /\ "final_summary" \in DOMAIN conversations[c]
            /\ conversations[c]["final_summary"].qualified \in {"Yes", "No", "Unknown"}

\* C12: a sweep passes every candidate of its scan to finalization, in order,
\* whatever happened to the earlier ones, and ends only when all were passed;
\* a finalization that raises leaves its session out of the store.
C12_SweepIsolatesFailures ==
    /\ [](sweep.pc /= "idle" /\ sweep.pc /= "scan"
            => ghost.processed \o sweep.inactive = ghost.scanned)
    /\ [][ (sweep.pc /= "idle" /\ sweep'.pc = "idle")
            => ghost.processed = ghost.scanned ]_vars
    /\ [][ \A c \in ghost'.failed \ ghost.failed : c \notin DOMAIN conversations' ]_vars

C12_Witness ==
    /\ sweep.pc = "loop"
    /\ Len(ghost.scanned) = 2
    /\ ghost.processed = ghost.scanned
    /\ ghost.scanned[1] \in ghost.failed
    /\ ghost.scanned[1] \notin DOMAIN conversations
    /\ ghost.scanned[2] \in DOMAIN conversations
    /\ "final_summary" \in DOMAIN conversations[ghost.scanned[2]]

\* C13: when generate_and_send_summary has returned for an id that was stored
\* when it was called, and no turn of that id ran meanwhile, the session is
\* either gone from the store, or stored with final_summary and
\* summary_generated = true.
C13_FinalizedOrRemoved ==
    (sweep.pc = "loop" /\ ghost.call = "clean") =>
        \/ sweep.cid \notin DOMAIN conversations
        \/ /\ "final_summary" \in DOMAIN conversations[sweep.cid]
           /\ Get(conversations[sweep.cid], "summary_generated", FALSE)

C13_Witness ==
    /\ sweep.pc = "loop" /\ ghost.call = "clean"
    /\ sweep.cid \in DOMAIN conversations
    /\ "final_summary" \in DOMAIN conversations[sweep.cid]
    /\ conversations[sweep.cid]["final_summary"].qualified = "Unknown"

\* C18: although a SlotExtractor call may never return, a sweep that has been
\* entered runs its scan, and a request of conversation c2 that has left its
\* locked section (while requests of another conversation are being served)
\* ends.
C18_HangDoesNotWedge ==
    /\ (sweep.pc = "scan") ~> (sweep.pc = "loop")
    /\ \A t \in 1..MaxConcurrent :
          (turn[t].pc \in Responding /\ turn[t].cid = "c2")
          ~> (turn[t].pc \in {"returned", "failed"})

\* The declaration order the reference lookup walks.
TriggerOrder ==
    << "Full_name", "Bedroom_size", "Calendar", "User_action", "Faq", "Incentive",
       "Price_range", "Work_place", "Occupancy", "Pet", "Features", "Tour",
       "Save_25", "Save_50" >>

\* Reference: the first variable of TriggerOrder one of whose keywords is a
\* case-insensitive substring of reply; "YES/NO" when none is and a generic
\* interrogative trigger is; otherwise none.
RefTriggered(reply) ==
    LET matches(v) ==
            \E i \in 1..Len(specific_triggers) :
                /\ specific_triggers[i].var = v
                /\ \E j \in 1..Len(specific_triggers[i].keywords) :
                      Contains(Lower(reply), Lower(specific_triggers[i].keywords[j]))
        hits == { k \in 1..Len(TriggerOrder) : matches(TriggerOrder[k]) }
        generic == \E j \in 1..Len(yes_no_triggers) :
                      Contains(Lower(reply), Lower(yes_no_triggers[j]))
    IN  IF hits /= {} THEN TriggerOrder[CHOOSE k \in hits : \A m \in hits : k <= m]
        ELSE IF generic THEN "YES/NO"
        ELSE None

\* C27: get_triggered_variable(reply) equals the reference lookup.
C27_TriggerMatchesReference ==
    (probe.fn = "get_triggered_variable" /\ probe.applied)
    => probe.output = RefTriggered(probe.input)

C27_Witness ==
    /\ probe.fn = "get_triggered_variable" /\ probe.applied
    /\ probe.input = "What BEDROOM SIZE and price range?"
    /\ probe.output = "Bedroom_size"

\* C29: helper.process_turn returns done = true exactly when a
\* write_lead_record call succeeded, at most one such call succeeds, and when
\* done is false its data carries nothing from the tool-call arguments.
C29_DoneIffOneWrite ==
    (probe.fn = "process_turn" /\ probe.applied) =>
        /\ probe.output.writes <= 1
        /\ ~probe.output.raised => (probe.output.done <=> probe.output.writes = 1)
        /\ ~probe.output.done => "prospect_name" \notin DOMAIN probe.output.data

\* C30: the reply_chunk fragments of a token stream, concatenated in emission
\* order, equal the concatenation of the tokens; none is empty; with no
\* fallback they equal completed_reply.
C30_ChunksPreserveTokens ==
    (probe.fn = "generator" /\ probe.applied) =>
        /\ Concat(probe.output.chunks) = Concat(probe.input)
        /\ \A i \in 1..Len(probe.output.chunks) : probe.output.chunks[i] /= ""
        /\ ~probe.output.is_fallback
              => Concat(probe.output.chunks) = probe.output.completed_reply

C30_Witness ==
    /\ probe.fn = "generator" /\ probe.applied
    /\ ~probe.output.is_fallback
    /\ Len(probe.output.chunks) >= 3
    /\ Len(probe.input) = MaxTokens
    /\ \E i \in 1..Len(probe.input) : probe.input[i] = ""

\* The step on which request t hands its last fragment to the caller.
Returns(t) == turn[t].pc /= "returned" /\ turn'[t].pc = "returned"

\* C21: when a turn on which fallback is detected returns, its session has
\* fallback_triggered = true and kb_pending equal to the turn's user message,
\* and the response carries fallback = true and the same kb_pending.
C21_FallbackRecorded ==
    [][ \A t \in Turns :
          (Returns(t) /\ turn'[t].is_fallback) =>
              LET c == turn'[t].cid
              IN  /\ c \in DOMAIN conversations'
                  /\ Get(conversations'[c], "fallback_triggered", FALSE) = TRUE
                  /\ Get(conversations'[c], "kb_pending", None) = turn'[t].msg
                  /\ turn'[t].kb_pending = turn'[t].msg ]_vars

\* C22: a non-terminal /chat/stream turn delivers exactly one metadata
\* fragment first, carrying the all-false variable map, then only reply_chunk
\* fragments, then exactly one final fragment.
C22_StreamFragmentOrder ==
    \A t \in Turns :
        (turn[t].pc = "returned" /\ turn[t].endpoint = "stream" /\ ~turn[t].done) =>
            LET d == turn[t].delivered
            IN  /\ Len(d) >= 2
                /\ d[1].kind = "meta" /\ d[1].variables = AllFalse
                /\ d[Len(d)].kind = "final"
                /\ d[Len(d)].text = turn[t].reply
                /\ d[Len(d)].variables = turn[t].variables
                /\ \A i \in 2..(Len(d) - 1) : d[i].kind = "chunk"

\* C25: when a non-terminal turn returns, the TurnRecord it appended has its
\* 'ava' field equal to the reply delivered to the caller.
C25_ReplyAttachedOnEveryPath ==
    [][ \A t \in Turns :
          (Returns(t) /\ ~turn'[t].done) =>
              LET c == turn'[t].cid
              IN  /\ c \in DOMAIN conversations'
                  /\ \E i \in DOMAIN Get(conversations'[c], "history", << >>) :
                        /\ conversations'[c]["history"][i].by = t
                        /\ conversations'[c]["history"][i].ava = turn'[t].reply ]_vars

\* The step on which generate_and_send_summary stores final_summary on session c.
Stores(c) ==
    /\ sweep.pc = "fin_llm" /\ sweep'.pc = "loop"
    /\ sweep.cid = c
    /\ c \in DOMAIN conversations /\ c \in DOMAIN conversations'

\* C23: the is_qualified value of the FinalSummary stored by a finalization
\* equals the session's pq_completed flag (false when the flag is absent).
C23_QualifiedMirrorsPqCompleted ==
    [][ \A c \in Ids :
          Stores(c) =>
              conversations'[c]["final_summary"].is_qualified
                  = Get(conversations'[c], "pq_completed", FALSE) ]_vars

\* C24: at the step where the sweeper stores final_summary and sets
\* summary_generated, the session is idle: now - last_activity_time > 120.
C24_SummarizedOnlyWhileIdle ==
    [][ \A c \in Ids :
          Stores(c) =>
              now - Get(conversations[c], "last_activity_time", 0) > IdleThreshold ]_vars

\* C28: when a non-terminal /chat turn returns, its conversation is in the
\* store and its history holds the record of the turn's user message together
\* with the returned reply.
C28_ReturnedReplyIsStored ==
    [][ \A t \in Turns :
          (Returns(t) /\ turn'[t].endpoint = "chat" /\ ~turn'[t].done) =>
              LET c == turn'[t].cid
              IN  /\ c \in DOMAIN conversations'
                  /\ \E i \in DOMAIN Get(conversations'[c], "history", << >>) :
                        /\ conversations'[c]["history"][i].user = turn'[t].msg
                        /\ conversations'[c]["history"][i].ava = turn'[t].reply ]_vars

\* No request is in progress and none will arrive any more.
Quiet == \A t \in 1..MaxIdleTurns : turn[t].pc = "closed"

Summarized(c) ==
    /\ Get(conversations[c], "summary_generated", FALSE) = TRUE
    /\ "final_summary" \in DOMAIN conversations[c]

\* C26: with the sweep firing and every external call returning, a session
\* that has stopped receiving turns is eventually marked summary_generated =
\* true with a final_summary, or removed from the store. (The clock of the
\* model stops within IdleThreshold of MaxTime, so the sessions considered are
\* those it can still see idle.)
C26_QuietSessionEventuallySettled ==
    \A c \in Ids :
        ( /\ Quiet
          /\ c \in DOMAIN conversations
          /\ Get(conversations[c], "last_activity_time", 0) + 2 * IdleThreshold < MaxTime )
        ~> ( c \notin DOMAIN conversations \/ Summarized(c) )

====
